---- MODULE Spec2Model ----
(***************************************************************************)
(* Model of src/main.py: the k-fold cross-validation driver for the        *)
(* fall-detection classifiers.  The script is one sequential process; pc   *)
(* is its position.  Strings whose characters matter (--gpu_ids, --monitor)*)
(* are tuples of one-character strings.                                    *)
(***************************************************************************)
EXTENDS Integers, Sequences, FiniteSets, TLC

\* ---------------------------------------------------------------- bounds
MaxFold == 2
MaxEpochs == 2

\* ------------------------------------------------------- program constants
Seed == 0

\* ------------------------------------------------------------ input sets
Digits == {"0", "1"}

GPU_NONE == <<"n", "o", "n", "e">>

GpuIdStrings ==
    { GPU_NONE,
      <<"0">>,
      <<"0", ",", "1">>,
      <<"1", "0">>,
      <<"a", "b", "c">>,
      <<"0", ",", ",", "1">>,
      <<"0", ",", "x">>,
      <<>> }

VAL_LOSS == <<"v", "a", "l", "_", "l", "o", "s", "s">>
VAL_AUC == <<"v", "a", "l", "_", "a", "u", "c">>
LOSS_EPOCH == <<"l", "o", "s", "s", "_", "e", "p">>
VAL_LOS == <<"v", "a", "l", "_", "l", "o", "s">>

MonitorNames == {VAL_LOSS, VAL_AUC, LOSS_EPOCH, VAL_LOS}

\* "None" stands for a --dataset flag that is absent from the command line.
DatasetArgs == {"FDD", "URFD", "UCF101", "None"}

\* Two of the metric columns of a test-result record.
Metrics == {"acc", "auc"}

\* Values a logged metric can take; a negative number encodes float NaN.
MetricValues == {-1, 1, 2}

\* Values of the monitored validation metric.
ValValues == {1, 2}

Argv ==
    [dataset : DatasetArgs,
     gpu_ids : GpuIdStrings,
     n_fold : (-1)..MaxFold,
     use_lr_finder : BOOLEAN,
     monitor : MonitorNames]

\* ------------------------------------------------------------ pure helpers
IsNaN(v) == v < 0

RECURSIVE SplitFrom(_, _, _)
SplitFrom(s, i, cur) ==
    IF i > Len(s) THEN <<cur>>
    ELSE IF s[i] = "," THEN <<cur>> \o SplitFrom(s, i + 1, <<>>)
    ELSE SplitFrom(s, i + 1, Append(cur, s[i]))

\* str.split(',')
split(s) == SplitFrom(s, 1, <<>>)

\* str.isdigit(): non-empty and every character a digit
isdigit(item) == Len(item) > 0 /\ \A i \in 1..Len(item) : item[i] \in Digits

DigitVal(c) == IF c = "0" THEN 0 ELSE 1

RECURSIVE IntOf(_)
IntOf(item) ==
    IF Len(item) = 0 THEN 0
    ELSE 10 * IntOf(SubSeq(item, 1, Len(item) - 1)) + DigitVal(item[Len(item)])

\* int(str): a value, or ValueError when the text is not a decimal literal
IntParses(item) == isdigit(item)

\* the assert of the startup block: all(map(isdigit, gpu_ids.split(',')))
AnyDigitItem(g) == \E i \in 1..Len(split(g)) : isdigit(split(g)[i])

AllDigitItems(g) == \A i \in 1..Len(split(g)) : isdigit(split(g)[i])

\* [int(i) for i in args.gpu_ids.split(',')]
GpuListParses(g) == \A i \in 1..Len(split(g)) : IntParses(split(g)[i])

GpuList(g) == [i \in 1..Len(split(g)) |-> IntOf(split(g)[i])]

\* sub in s
Contains(sub, s) ==
    \E i \in 1..(Len(s) - Len(sub) + 1) : SubSeq(s, i, i + Len(sub) - 1) = sub

LOSS == <<"l", "o", "s", "s">>

ModeAlwaysMax(monitor) == "max"

\* mode='min' if 'loss' in args.monitor else 'max'
CheckpointMode(monitor) == IF Contains(LOSS, monitor) THEN "min" ELSE "max"

\* warnings.warn under the filter list: the first filter decides
WarningShown(fl) == Len(fl) = 0 \/ fl[1] # "ignore"

RECURSIVE SumSeq(_)
SumSeq(s) == IF Len(s) = 0 THEN 0 ELSE s[1] + SumSeq(Tail(s))

\* DataFrame column m over the records rows[1..n]
Column(rows, m) == [i \in 1..Len(rows) |-> rows[i][m]]

NonNaN(col) == SelectSeq(col, LAMBDA v : ~IsNaN(v))

\* Series.mean(): sum and count of the values that are not NaN
\* (the mean is sum/n; n = 0 is a NaN mean)
ColumnMeanDropLast(col) ==
    [sum |-> SumSeq(NonNaN(SubSeq(col, 1, Len(col) - 1))),
     n |-> Len(NonNaN(SubSeq(col, 1, Len(col) - 1)))]

ColumnMean(col) == [sum |-> SumSeq(NonNaN(col)), n |-> Len(NonNaN(col))]

\* pd.DataFrame([cv_results[i][0] for i in range(n_fold)]).mean()
FinalResult(cv, n) ==
    LET cnt == IF n < 0 THEN 0 ELSE n
        rows == [i \in 1..cnt |-> cv[i][1]]
    IN  IF cnt = 0 THEN <<>>
        ELSE [m \in Metrics |-> ColumnMean(Column(rows, m))]

\* ModelCheckpoint (save_top_k = 1): is value v better than the kept best?
IsBetter(mode, v, best) == IF mode = "min" THEN v < best ELSE v > best

\* ----------------------------------------------------------------- state
VARIABLES
    argv,          \* the command line
    cuda,          \* torch.cuda.is_available()
    pc,            \* position of the script
    exc,           \* uncaught exception that ended the process, or "none"
    args,          \* parsed namespace
    filters,       \* warnings filter list
    issued,        \* number of warnings.warn calls
    stderr,        \* number of warnings actually shown
    environ,       \* the two CUDA environment variables
    run_entered,   \* run() has been called
    fold,          \* loop variable of run()
    started,       \* fold indices for which train_one_fold was called
    trace,         \* orchestrator states passed in the current fold
    rng,           \* global RNG: "fresh", "seeded" or "used"
    models,        \* every model instance constructed so far
    model,         \* local `model` of train_one_fold (index in models, 0 = none)
    loaders,       \* data loaders built in the current fold
    trainer,       \* pl.Trainer of the current fold
    ckpt,          \* ModelCheckpoint callback of the current fold
    val_history,   \* monitored values seen by the callback of this fold
    uses,          \* (operation, fold, model) triples: which model was fitted/tested where
    test_results,  \* local `test_results` of train_one_fold
    cv_results,    \* list of per-fold test results
    stdout         \* printed final results

vars == <<argv, cuda, pc, exc, args, filters, issued, stderr, environ, run_entered,
          fold, started, trace, rng, models, model, loaders, trainer, ckpt,
          val_history, uses, test_results, cv_results, stdout>>

NoTrainer == [made |-> FALSE, device |-> "none", gpus |-> <<>>, model |-> 0]

NoCkpt == [mode |-> "unset", best_epoch |-> 0, best_score |-> 0, epoch |-> 0]

Init ==
    /\ argv \in Argv
    /\ cuda \in BOOLEAN
    /\ pc = "parse"
    /\ exc = "none"
    /\ args = argv
    \* line 16: warnings.filterwarnings("ignore") runs at import time
    /\ filters = <<"ignore">>
    /\ issued = 0
    /\ stderr = 0
    /\ environ = [k \in {"CUDA_DEVICE_ORDER", "CUDA_VISIBLE_DEVICES"} |-> <<"unset">>]
    /\ run_entered = FALSE
    /\ fold = 0
    /\ started = <<>>
    /\ trace = <<>>
    /\ rng = "fresh"
    /\ models = <<>>
    /\ model = 0
    /\ loaders = FALSE
    /\ trainer = NoTrainer
    /\ ckpt = NoCkpt
    /\ val_history = <<>>
    /\ uses = {}
    /\ test_results = <<>>
    /\ cv_results = <<>>
    /\ stdout = <<>>

\* An uncaught exception ends the process.
Raise(e) == pc' = "crashed" /\ exc' = e

startupVars == <<filters, issued, stderr, environ, run_entered>>
foldVars == <<fold, started, trace, rng, models, model, loaders, trainer, ckpt,
              val_history, uses, test_results, cv_results, stdout>>

\* ---------------------------------------------------------------- startup
\* parser.parse_args(): --dataset has choices but is not required
ParseArgs ==
    /\ pc = "parse"
    /\ IF argv.dataset \in {"FDD", "URFD", "None"}
       THEN pc' = "gpu_check" /\ exc' = exc
       ELSE Raise("SystemExit")
    /\ UNCHANGED <<argv, cuda, args>>
    /\ UNCHANGED startupVars
    /\ UNCHANGED foldVars

CheckGpuIdsAny ==
    /\ pc = "gpu_check"
    /\ IF args.gpu_ids = GPU_NONE THEN pc' = "run" /\ exc' = exc
       ELSE IF AnyDigitItem(args.gpu_ids) THEN pc' = "warn" /\ exc' = exc
       ELSE Raise("AssertionError")
    /\ UNCHANGED <<argv, cuda, args>>
    /\ UNCHANGED startupVars
    /\ UNCHANGED foldVars

\* if args.gpu_ids != 'none': assert all(... isdigit ...)
CheckGpuIds ==
    /\ pc = "gpu_check"
    /\ IF args.gpu_ids = GPU_NONE THEN pc' = "run" /\ exc' = exc
       ELSE IF AllDigitItems(args.gpu_ids) THEN pc' = "warn" /\ exc' = exc
       ELSE Raise("AssertionError")
    /\ UNCHANGED <<argv, cuda, args>>
    /\ UNCHANGED startupVars
    /\ UNCHANGED foldVars

\* if not torch.cuda.is_available(): warnings.warn(..., ResourceWarning)
WarnCpuOnly ==
    /\ pc = "warn"
    /\ IF cuda
       THEN UNCHANGED <<issued, stderr>>
       ELSE /\ issued' = issued + 1
            /\ stderr' = IF WarningShown(filters) THEN stderr + 1 ELSE stderr
    /\ pc' = "setenv"
    /\ UNCHANGED <<argv, cuda, exc, args, filters, environ, run_entered>>
    /\ UNCHANGED foldVars

\* os.environ[...] = ...
SetEnviron ==
    /\ pc = "setenv"
    /\ environ' = [environ EXCEPT !["CUDA_DEVICE_ORDER"] = <<"P", "C", "I">>,
                                  !["CUDA_VISIBLE_DEVICES"] = args.gpu_ids]
    /\ pc' = "run"
    /\ UNCHANGED <<argv, cuda, exc, args, filters, issued, stderr, run_entered>>
    /\ UNCHANGED foldVars

\* run(), lines 94-114: os.path.join(args.root, args.dataset) needs a string
RunEnter ==
    /\ pc = "run"
    /\ run_entered' = TRUE
    /\ IF args.dataset = "None"
       THEN Raise("TypeError") /\ UNCHANGED <<fold, cv_results>>
       ELSE pc' = "loop" /\ exc' = exc /\ fold' = 1 /\ cv_results' = <<>>
    /\ UNCHANGED <<argv, cuda, args, filters, issued, stderr, environ>>
    /\ UNCHANGED <<started, trace, rng, models, model, loaders, trainer, ckpt,
                   val_history, uses, test_results, stdout>>

cfgVars == <<argv, cuda, args, filters, issued, stderr, environ, run_entered>>

\* ------------------------------------------------------- run(): fold loop
\* lines 117-126: loop head, logger, checkpoint callback, call train_one_fold
FoldStart ==
    /\ pc = "loop"
    /\ fold <= args.n_fold
    /\ ckpt' = [mode |-> CheckpointMode(args.monitor),
                best_epoch |-> 0, best_score |-> 0, epoch |-> 0]
    /\ val_history' = <<>>
    /\ started' = Append(started, fold)
    /\ trace' = <<>>
    /\ pc' = "seed"
    /\ UNCHANGED cfgVars
    /\ UNCHANGED <<exc, fold, rng, models, model, loaders, trainer, uses,
                   test_results, cv_results, stdout>>

\* line 54: pl.seed_everything(seed=0)
SeedEverything ==
    /\ pc = "seed"
    /\ rng' = "seeded"
    /\ trace' = Append(trace, "SEED")
    /\ pc' = "build"
    /\ UNCHANGED cfgVars
    /\ UNCHANGED <<exc, fold, started, models, model, loaders, trainer, ckpt,
                   val_history, uses, test_results, cv_results, stdout>>

BuildModelReuse ==
    /\ pc = "build"
    /\ models' = IF Len(models) = 0
                 THEN <<[fold |-> fold, seeded |-> (rng = "seeded"), seed |-> Seed]>>
                 ELSE models
    /\ model' = 1
    /\ rng' = "used"
    /\ trace' = Append(trace, "BUILD_MODEL")
    /\ pc' = "prepare"
    /\ UNCHANGED cfgVars
    /\ UNCHANGED <<exc, fold, started, loaders, trainer, ckpt, val_history, uses,
                   test_results, cv_results, stdout>>

\* lines 56-72: construct the architecture and its LitClassifier wrapper
BuildModel ==
    /\ pc = "build"
    /\ models' = Append(models, [fold |-> fold, seeded |-> (rng = "seeded"), seed |-> Seed])
    /\ model' = Len(models) + 1
    /\ rng' = "used"
    /\ trace' = Append(trace, "BUILD_MODEL")
    /\ pc' = "prepare"
    /\ UNCHANGED cfgVars
    /\ UNCHANGED <<exc, fold, started, loaders, trainer, ckpt, val_history, uses,
                   test_results, cv_results, stdout>>

\* lines 74-76: prepare_dataset builds the three loaders
PrepareDataset ==
    /\ pc = "prepare"
    /\ loaders' = TRUE
    /\ pc' = "trainer"
    /\ UNCHANGED cfgVars
    /\ UNCHANGED <<exc, fold, started, trace, rng, models, model, trainer, ckpt,
                   val_history, uses, test_results, cv_results, stdout>>

\* prepare_dataset raises (malformed directory or fold layout)
PrepareDatasetFails ==
    /\ pc = "prepare"
    /\ Raise("DataError")
    /\ UNCHANGED cfgVars
    /\ UNCHANGED foldVars

\* lines 77-83: pl.Trainer(gpus=None if not cuda else [int(i) for i in ...])
MakeTrainer ==
    /\ pc = "trainer"
    /\ IF ~cuda
       THEN /\ trainer' = [made |-> TRUE, device |-> "cpu", gpus |-> <<>>, model |-> 0]
            /\ pc' = "tune_or_fit" /\ exc' = exc
       ELSE IF GpuListParses(args.gpu_ids)
       THEN /\ trainer' = [made |-> TRUE, device |-> "gpu",
                           gpus |-> GpuList(args.gpu_ids), model |-> 0]
            /\ pc' = "tune_or_fit" /\ exc' = exc
       ELSE Raise("ValueError") /\ UNCHANGED trainer
    /\ UNCHANGED cfgVars
    /\ UNCHANGED <<fold, started, trace, rng, models, model, loaders, ckpt,
                   val_history, uses, test_results, cv_results, stdout>>

TuneLrAlways ==
    /\ pc = "tune_or_fit"
    /\ trace' = Append(trace, "TUNE_LR")
    /\ uses' = uses \cup {<<"tune", fold, model>>}
    /\ pc' = "fit"
    /\ UNCHANGED cfgVars
    /\ UNCHANGED <<exc, fold, started, rng, models, model, loaders, trainer, ckpt,
                   val_history, test_results, cv_results, stdout>>

\* lines 84-85: if args.use_lr_finder: trainer.tune(model, train_loader)
TuneLr ==
    /\ pc = "tune_or_fit"
    /\ args.use_lr_finder
    /\ trace' = Append(trace, "TUNE_LR")
    /\ uses' = uses \cup {<<"tune", fold, model>>}
    /\ pc' = "fit"
    /\ UNCHANGED cfgVars
    /\ UNCHANGED <<exc, fold, started, rng, models, model, loaders, trainer, ckpt,
                   val_history, test_results, cv_results, stdout>>

\* trainer.tune raises
TuneLrFails ==
    /\ pc = "tune_or_fit"
    /\ args.use_lr_finder
    /\ Raise("TuneError")
    /\ UNCHANGED cfgVars
    /\ UNCHANGED foldVars

\* line 88: trainer.fit(model, train_loader, valid_loader) starts
FitBegin ==
    /\ \/ pc = "fit"
       \/ pc = "tune_or_fit" /\ ~args.use_lr_finder
    /\ trainer' = [trainer EXCEPT !.model = model]
    /\ trace' = Append(trace, "FIT")
    /\ uses' = uses \cup {<<"fit", fold, model>>}
    /\ pc' = "epoch"
    /\ UNCHANGED cfgVars
    /\ UNCHANGED <<exc, fold, started, rng, models, model, loaders, ckpt,
                   val_history, test_results, cv_results, stdout>>

\* ModelCheckpoint at the end of a validation epoch that logged value v
OnValidationEnd(cb, v) ==
    IF cb.best_epoch = 0 \/ IsBetter(cb.mode, v, cb.best_score)
    THEN [cb EXCEPT !.epoch = cb.epoch + 1, !.best_epoch = cb.epoch + 1, !.best_score = v]
    ELSE [cb EXCEPT !.epoch = cb.epoch + 1]

\* one training epoch followed by its validation (check_val_every_n_epoch=1)
FitEpoch ==
    /\ pc = "epoch"
    /\ ckpt.epoch < MaxEpochs
    /\ \E v \in ValValues :
          /\ val_history' = Append(val_history, v)
          /\ ckpt' = OnValidationEnd(ckpt, v)
    /\ pc' = IF ckpt.epoch + 1 = MaxEpochs THEN "test" ELSE "epoch"
    /\ UNCHANGED cfgVars
    /\ UNCHANGED <<exc, fold, started, trace, rng, models, model, loaders, trainer,
                   uses, test_results, cv_results, stdout>>

FitFailsSkipFold ==
    /\ pc = "epoch"
    /\ pc' = "loop"
    /\ exc' = "FitError"
    /\ fold' = fold + 1
    /\ UNCHANGED cfgVars
    /\ UNCHANGED <<started, trace, rng, models, model, loaders, trainer, ckpt,
                   val_history, uses, test_results, cv_results, stdout>>

\* trainer.fit raises
FitFails ==
    /\ pc = "epoch"
    /\ Raise("FitError")
    /\ UNCHANGED cfgVars
    /\ UNCHANGED foldVars

\* line 89: trainer.test(dataloaders=test_loader) evaluates the trainer's model
Test ==
    /\ pc = "test"
    /\ \E r \in [Metrics -> MetricValues] : test_results' = <<r>>
    /\ trace' = Append(trace, "TEST")
    /\ uses' = uses \cup {<<"test", fold, trainer.model>>}
    /\ pc' = "return"
    /\ UNCHANGED cfgVars
    /\ UNCHANGED <<exc, fold, started, rng, models, model, loaders, trainer, ckpt,
                   val_history, cv_results, stdout>>

\* trainer.test raises
TestFails ==
    /\ pc = "test"
    /\ Raise("TestError")
    /\ UNCHANGED cfgVars
    /\ UNCHANGED foldVars

ReturnSameFold ==
    /\ pc = "return"
    /\ cv_results' = Append(cv_results, test_results)
    /\ trace' = Append(trace, "DONE")
    /\ test_results' = <<>>
    /\ model' = 0
    /\ trainer' = NoTrainer
    /\ loaders' = FALSE
    /\ fold' = IF fold = 1 /\ Len(started) = 1 THEN fold ELSE fold + 1
    /\ pc' = "loop"
    /\ UNCHANGED cfgVars
    /\ UNCHANGED <<exc, started, rng, models, ckpt, val_history, uses, stdout>>

\* line 91 and lines 124-127: return test_results; cv_results.append(...)
Return ==
    /\ pc = "return"
    /\ cv_results' = Append(cv_results, test_results)
    /\ trace' = Append(trace, "DONE")
    /\ test_results' = <<>>
    /\ model' = 0
    /\ trainer' = NoTrainer
    /\ loaders' = FALSE
    /\ fold' = fold + 1
    /\ pc' = "loop"
    /\ UNCHANGED cfgVars
    /\ UNCHANGED <<exc, started, rng, models, ckpt, val_history, uses, stdout>>

\* lines 129-133: mean over the first record of each fold, printed
PrintSummary ==
    /\ pc = "loop"
    /\ fold > args.n_fold
    /\ stdout' = <<FinalResult(cv_results, args.n_fold)>>
    /\ pc' = "exit"
    /\ UNCHANGED cfgVars
    /\ UNCHANGED <<exc, fold, started, trace, rng, models, model, loaders, trainer,
                   ckpt, val_history, uses, test_results, cv_results>>

Next ==
    \/ ParseArgs
    \/ CheckGpuIds
    \/ WarnCpuOnly
    \/ SetEnviron
    \/ RunEnter
    \/ FoldStart
    \/ SeedEverything
    \/ BuildModel
    \/ PrepareDataset
    \/ PrepareDatasetFails
    \/ MakeTrainer
    \/ TuneLr
    \/ TuneLrFails
    \/ FitBegin
    \/ FitEpoch
    \/ FitFails
    \/ Test
    \/ TestFails
    \/ Return
    \/ PrintSummary

Spec == Init /\ [][Next]_vars

\* ---------------------------------------------------------- vocabulary
InFold == pc \in {"seed", "build", "prepare", "trainer", "tune_or_fit", "fit",
                  "epoch", "test", "return"}

AtStartup == pc \in {"parse", "gpu_check", "warn", "setenv", "run"}

\* the --gpu_ids values that are comma-separated lists of decimal numbers
DigitListGpuIds == { <<"0">>, <<"0", ",", "1">>, <<"1", "0">> }

LossMonitors == {VAL_LOSS, LOSS_EPOCH}

EnvUnset == \A k \in DOMAIN environ : environ[k] = <<"unset">>

FirstN(n) == [i \in 1..n |-> i]

MinOf(sq) == CHOOSE x \in {sq[i] : i \in 1..Len(sq)} : \A j \in 1..Len(sq) : x <= sq[j]

MaxOf(sq) == CHOOSE x \in {sq[i] : i \in 1..Len(sq)} : \A j \in 1..Len(sq) : x >= sq[j]

RECURSIVE SumOver(_, _)
SumOver(S, f) ==
    IF S = {} THEN 0
    ELSE LET i == CHOOSE j \in S : TRUE IN f[i] + SumOver(S \ {i}, f)

ExpectedTrace(lr) ==
    IF lr THEN <<"SEED", "BUILD_MODEL", "TUNE_LR", "FIT", "TEST", "DONE">>
    ELSE <<"SEED", "BUILD_MODEL", "FIT", "TEST", "DONE">>

IsPrefix(a, b) == Len(a) <= Len(b) /\ a = SubSeq(b, 1, Len(a))

TypeOK ==
    /\ pc \in {"parse", "gpu_check", "warn", "setenv", "run", "loop", "seed", "build",
               "prepare", "trainer", "tune_or_fit", "fit", "epoch", "test", "return",
               "exit", "crashed"}
    /\ fold \in 0..(MaxFold + 1)
    /\ Len(cv_results) <= MaxFold

\* ------------------------------------------------------------------ C1
\* C1: for n_fold >= 1 the folds started are 1, 2, ... in increasing order,
\* each at most once and none outside [1, n_fold]; a fold is started only
\* after every earlier fold passed TEST and returned its result; when run()
\* completes every fold 1..n_fold has been started exactly once.
C1_FoldsSequential ==
    args.n_fold >= 1 =>
        /\ started = FirstN(Len(started))
        /\ Len(started) <= args.n_fold
        /\ InFold => Len(started) = Len(cv_results) + 1 /\ fold = Len(started)
        /\ pc = "loop" => Len(started) = Len(cv_results) /\ fold = Len(started) + 1
        /\ (pc = "loop" /\ Len(started) > 0) =>
              /\ trace[Len(trace)] = "DONE"
              /\ \E i \in 1..Len(trace) : trace[i] = "TEST"
        /\ pc = "exit" => started = FirstN(args.n_fold)

C1_Witness ==
    pc = "exit" /\ args.n_fold = 2 /\ started = <<1, 2>> /\ Len(cv_results) = 2

\* ------------------------------------------------------------------ C2
\* C2 as stated: when all folds complete, every summary column is the mean
\* of exactly n_fold values, one per fold.
C2_MeanOfExactlyNFold ==
    (pc = "exit" /\ args.n_fold >= 1) =>
        \A m \in Metrics :
            /\ stdout[1][m].n = args.n_fold
            /\ stdout[1][m].sum =
                  SumOver(1..args.n_fold, [i \in 1..args.n_fold |-> cv_results[i][1][m]])

\* C2 amended: every summary column is the mean of the values of that metric
\* that are not NaN among the first records of folds 1..n_fold, each fold
\* contributing at most once; with no NaN value it is the mean of exactly
\* n_fold values, with only NaN values it is NaN; for n_fold = 1 it is the
\* single fold's value.
C2_MeanOfNonNaN ==
    (pc = "exit" /\ args.n_fold >= 1) =>
        /\ Len(stdout) = 1
        /\ DOMAIN stdout[1] = Metrics
        /\ \A m \in Metrics :
              LET valid == {i \in 1..args.n_fold : ~IsNaN(cv_results[i][1][m])}
                  vals == [i \in 1..args.n_fold |-> cv_results[i][1][m]]
              IN  /\ stdout[1][m].n = Cardinality(valid)
                  /\ stdout[1][m].sum = SumOver(valid, vals)
                  /\ valid = 1..args.n_fold => stdout[1][m].n = args.n_fold
                  /\ (args.n_fold = 1 /\ valid # {}) =>
                        stdout[1][m] = [sum |-> cv_results[1][1][m], n |-> 1]

C2_Witness ==
    /\ pc = "exit"
    /\ args.n_fold = 2
    /\ cv_results[1][1]["acc"] = 1
    /\ cv_results[2][1]["acc"] = 2
    /\ stdout[1]["acc"] = [sum |-> 3, n |-> 2]
    /\ IsNaN(cv_results[1][1]["auc"])
    /\ stdout[1]["auc"] = [sum |-> 2, n |-> 1]

\* ------------------------------------------------------------------ C3
\* C3: within a fold the states passed are a prefix of SEED, BUILD_MODEL,
\* (TUNE_LR), FIT, TEST, DONE, with TUNE_LR present exactly when
\* use_lr_finder is set, and a fold that returns has passed all of them.
C3_StateOrder ==
    /\ IsPrefix(trace, ExpectedTrace(args.use_lr_finder))
    /\ (pc = "loop" /\ Len(started) > 0) => trace = ExpectedTrace(args.use_lr_finder)
    /\ pc = "epoch" => trace[Len(trace)] = "FIT"
    /\ pc = "return" => trace[Len(trace)] = "TEST"
    /\ pc = "fit" => trace[Len(trace)] = "TUNE_LR"

C3_Witness ==
    /\ pc = "loop"
    /\ args.use_lr_finder
    /\ Len(started) = 2
    /\ trace = <<"SEED", "BUILD_MODEL", "TUNE_LR", "FIT", "TEST", "DONE">>

\* ------------------------------------------------------------------ C4
\* C4: a command line whose dataset is not FDD or URFD (the flag omitted
\* included) is rejected by the argument parser: run() is never entered,
\* no fold starts, no loader is built.
C4_DatasetRequired ==
    (argv.dataset \notin {"FDD", "URFD"} /\ pc # "parse") =>
        /\ pc = "crashed"
        /\ exc = "SystemExit"
        /\ ~run_entered
        /\ started = <<>>
        /\ ~loaders

\* ------------------------------------------------------------------ C5
\* C5: a --gpu_ids value other than "none" with an item that is not an
\* all-digit string ends the process with an error before run() is entered:
\* no environment variable set, no fold started, no loader built.
C5_BadGpuIdsRejected ==
    (argv.gpu_ids \notin (DigitListGpuIds \cup {GPU_NONE})
        /\ pc \notin {"parse", "gpu_check"}) =>
        /\ pc = "crashed"
        /\ exc \in {"AssertionError", "SystemExit"}
        /\ ~run_entered
        /\ EnvUnset
        /\ started = <<>>
        /\ ~loaders

C5_Witness ==
    /\ argv.gpu_ids = <<"0", ",", "x">>
    /\ pc = "crashed"
    /\ exc = "AssertionError"

\* ------------------------------------------------------------------ C6
\* C6: for "none" and for every list of decimal ids, with or without an
\* accelerator, no device-selection error is raised once loaders are built,
\* and the trainer's devices are CPU for "none" and the listed ids otherwise.
C6_DeviceSettledAtStartup ==
    argv.gpu_ids \in (DigitListGpuIds \cup {GPU_NONE}) =>
        /\ ~(loaders /\ exc = "ValueError")
        /\ (trainer.made /\ argv.gpu_ids = GPU_NONE) => trainer.device = "cpu"
        /\ (trainer.made /\ trainer.device = "gpu") =>
              trainer.gpus = GpuList(argv.gpu_ids)

\* ------------------------------------------------------------------ C7
\* C7: with a list of decimal ids and no accelerator, startup shows a
\* warning and goes on: both environment variables are set, run() is
\* entered, and every trainer is a CPU trainer.
C7_WarnAndContinue ==
    (argv.gpu_ids \in DigitListGpuIds /\ ~cuda /\ argv.dataset \in {"FDD", "URFD"}) =>
        /\ pc \notin {"parse", "gpu_check", "warn"} => stderr >= 1
        /\ ~AtStartup =>
              /\ environ["CUDA_VISIBLE_DEVICES"] = argv.gpu_ids
              /\ environ["CUDA_DEVICE_ORDER"] # <<"unset">>
              /\ run_entered
        /\ exc \notin {"AssertionError", "SystemExit", "ValueError"}
        /\ trainer.made => trainer.device = "cpu"

\* ------------------------------------------------------------------ C8
\* C8: a failure of fit or test in fold k ends the process: nothing runs
\* afterwards, fold k was started once and no later fold was, no result
\* was recorded for fold k, and no summary was printed.
C8_FailureAborts ==
    exc \in {"FitError", "TestError"} =>
        /\ pc = "crashed"
        /\ ~ENABLED Next
        /\ started = FirstN(fold)
        /\ Len(cv_results) = fold - 1
        /\ stdout = <<>>

C8_Witness ==
    /\ exc = "FitError"
    /\ pc = "crashed"
    /\ fold = 2
    /\ args.n_fold >= 2
    /\ Len(cv_results) = 1

\* ------------------------------------------------------------------ C9
\* C9: the k-th model is the model of fold k and is constructed right after
\* the RNG was re-seeded; every tune, fit and test of a fold acts on that
\* fold's model; between folds no model is held.
C9_ModelPerFold ==
    /\ \A i \in 1..Len(models) : models[i].fold = i /\ models[i].seeded
    /\ \A u \in uses : u[3] \in 1..Len(models) /\ models[u[3]].fold = u[2]
    /\ model # 0 => models[model].fold = fold
    /\ trainer.model # 0 => models[trainer.model].fold = fold
    /\ pc \in {"prepare", "trainer", "tune_or_fit", "fit", "epoch", "test"} =>
          model = Len(models) /\ model = fold
    /\ pc \in {"loop", "seed", "exit"} => model = 0 /\ trainer.model = 0

C9_Witness ==
    /\ <<"fit", 1, 1>> \in uses
    /\ <<"fit", 2, 2>> \in uses
    /\ <<"test", 2, 2>> \in uses
    /\ Len(models) = 2

\* ------------------------------------------------------------------ C10
\* C10: the checkpoint callback of a fold minimizes when the monitor name
\* contains "loss" and maximizes otherwise, and after any validation values
\* the kept checkpoint is that of an epoch with the minimum (respectively
\* maximum) value seen in the fold.
C10_CheckpointMode ==
    ckpt.mode # "unset" =>
        /\ ckpt.mode = (IF args.monitor \in LossMonitors THEN "min" ELSE "max")
        /\ ckpt.epoch = Len(val_history)
        /\ Len(val_history) > 0 =>
              /\ ckpt.best_epoch \in 1..Len(val_history)
              /\ val_history[ckpt.best_epoch] = ckpt.best_score
              /\ ckpt.best_score =
                    (IF args.monitor \in LossMonitors
                     THEN MinOf(val_history) ELSE MaxOf(val_history))

C10_Witness ==
    /\ args.monitor = VAL_LOSS
    /\ val_history = <<2, 1>>
    /\ ckpt.best_epoch = 2
    /\ ckpt.mode = "min"
====
